---- MODULE Spec2Model ----
(***************************************************************************)
(* cioban: the reconciliation loop of src/cioban/cioban.py.                *)
(*                                                                         *)
(* The controller (Cioban.run / Cioban._run) is one sequential process.    *)
(* Its steps are cut at the calls it makes to its collaborators (the       *)
(* docker daemon, the registry behind it, the notifier), because the       *)
(* platform and the registry change between those calls.  The platform,    *)
(* the registry and the operators who remove services are the              *)
(* environment.                                                            *)
(*                                                                         *)
(* Strings that the code splits and concatenates (image references) are    *)
(* sequences of one-character strings.                                     *)
(***************************************************************************)
EXTENDS Integers, Sequences, FiniteSets, TLC

\* ---------------------------------------------------------------- bounds
MaxPush   == 1      \* image pushes to the registry
MaxVanish == 1      \* services removed by their operators
MaxChurn  == 2      \* services removed by their operators, under SpecChurn
MaxSleepLen == 3    \* characters of a SLEEP_TIME setting
MaxBlacklist == 2   \* entries of a BLACKLIST_SERVICES setting, under SpecFilter

\* ------------------------------------------------------------- the fleet
\* Service ids are atoms; docker swarm keeps service names unique, so every
\* id has its own name and no list the platform returns holds a name twice.
Ids == {"s1", "s2", "s3"}

NameOf(id) ==
    CASE id = "s1" -> "web"
      [] id = "s2" -> "worker"
      [] id = "s3" -> "api"

\* Model.short_id is id[:10]; the ids of the model are shorter than that.
ShortId(id) == id

Repo    == <<"r">>
Digests == {<<"A">>, <<"B">>}
\* image references found on the services when the controller starts: never
\* pinned, or pinned to the first build
InitImages(id) ==
    IF id = "s2" THEN {Repo} ELSE {Repo, Repo \o <<"@">> \o <<"A">>}

\* the settings explored: BLACKLIST_SERVICES (a list of names),
\* NOTIFY_INCLUDE_OLD_IMAGE, NOTIFY_INCLUDE_NEW_IMAGE
Settings ==
    {[blacklist |-> <<"worker">>,        old |-> TRUE,  new |-> TRUE],
     [blacklist |-> <<"api", "worker">>, old |-> TRUE,  new |-> FALSE],
     [blacklist |-> <<"worker", "api">>, old |-> FALSE, new |-> TRUE],
     [blacklist |-> <<"api", "worker">>, old |-> FALSE, new |-> FALSE]}

\* the orders in which the platform lists the services
Orders == {<<"s1", "s2", "s3">>, <<"s2", "s3", "s1">>, <<"s3", "s1", "s2">>}

VARIABLES
    \* settings (immutable after construction)
    blacklist,          \* settings['blacklist']
    notify_old,         \* settings['notify_include_old_image']
    notify_new,         \* settings['notify_include_new_image']
    sleep_time,         \* settings['sleep_time']
    sleep,              \* self.sleep
    sleep_type,         \* self.sleep_type
    ctor,               \* Cioban(**options): "new" | "ok" | "error"
    \* the platform and the registry
    platform,           \* id -> [exists, image, ustate]
    order,              \* the order in which the platform lists services
    registry,           \* current digest of Repo
    pushes,             \* pushes made so far
    \* the controller
    phase,              \* PROM_STATE_ENUM
    pc,                 \* position of the controller in run/_run
    services,           \* the local variable `services` of _run
    iter,               \* the list object the running for-loop iterates
    idx,                \* position of that for-loop (1-based)
    image_with_digest,  \* local of _run
    update_image,       \* local of _run
    counter,            \* PROM_SVC_UPDATE_COUNTER value per label set
    primed,             \* label sets for which the counter series exists
    \* observation of the current cycle
    hist,               \* id -> what happened to it in this cycle
    recomputes,         \* get_services() calls after the first, this cycle:
                        \* [prime, wait] = made by the priming pass, by a wait
    prev                \* what the previous cycle did (recorded by SpecRetry
                        \* and SpecRound only; the controller keeps no such
                        \* memory)

vars == <<blacklist, notify_old, notify_new, sleep_time, sleep, sleep_type, ctor,
          platform, order, registry, pushes,
          phase, pc, services, iter, idx, image_with_digest, update_image,
          counter, primed, hist, recomputes, prev>>

settingsVars == <<blacklist, notify_old, notify_new,
                  sleep_time, sleep, sleep_type, ctor>>
envVars      == <<platform, order, registry, pushes>>

\* ------------------------------------------------------- optional values
\* Python's None is the empty tuple, a present value x is <<x>>.
None    == <<>>
Some(x) == <<x>>

\* ------------------------------------------- Cioban.__init__, sleep_time
\* The characters a SLEEP_TIME setting is made of here: digits, the unit
\* letters, other letters, a sign and a blank.
DigitChars == {"0", "2", "3", "5"}
UnitChars  == {"s", "m", "h", "d", "w"}
OtherAlpha == {"a", "b", "c", "x"}
SleepChars == DigitChars \cup UnitChars \cup OtherAlpha \cup {"-", " "}

SleepTimes ==
    UNION {[1..n -> SleepChars] : n \in 0..MaxSleepLen}

\* str.isalpha() of one character
isalpha(c) == c \in UnitChars \cup OtherAlpha

DigitVal(c) ==
    CASE c = "0" -> 0
      [] c = "2" -> 2
      [] c = "3" -> 3
      [] c = "5" -> 5

RECURSIVE Decimal(_)
Decimal(ds) ==
    IF ds = <<>> THEN 0
    ELSE Decimal(SubSeq(ds, 1, Len(ds) - 1)) * 10 + DigitVal(ds[Len(ds)])

RECURSIVE Strip(_)
Strip(s) ==
    IF s = <<>> THEN s
    ELSE IF s[1] = " " THEN Strip(Tail(s))
    ELSE IF s[Len(s)] = " " THEN Strip(SubSeq(s, 1, Len(s) - 1))
    ELSE s

\* int(s): blanks around the literal are dropped, a sign may lead, at least
\* one digit must follow and nothing else; None stands for ValueError.
PyInt(s) ==
    LET t      == Strip(s)
        signed == t # <<>> /\ t[1] = "-"
        ds     == IF signed THEN Tail(t) ELSE t
    IN  IF ds # <<>> /\ \A i \in 1..Len(ds) : ds[i] \in DigitChars
        THEN Some(IF signed THEN 0 - Decimal(ds) ELSE Decimal(ds))
        ELSE None

\* relation = {'s': 'seconds', 'm': 'minutes', ...}
relation(c) ==
    CASE c = "s" -> "seconds"
      [] c = "m" -> "minutes"
      [] c = "h" -> "hours"
      [] c = "d" -> "days"
      [] c = "w" -> "weeks"

\* the unit of a setting without letters
bare_sleep_type_seconds == "seconds"

bare_sleep_type == "minutes"

SleepError == [ok |-> FALSE, sleep |-> 0, sleep_type |-> "none"]

\* lines 41-60: what the constructor makes of settings['sleep_time'], or the
\* ValueError it raises
ParseSleep(st) ==
    IF \E i \in 1..Len(st) : isalpha(st[i])
    THEN LET n == PyInt(SubSeq(st, 1, Len(st) - 1))
         IN  IF n = None THEN SleepError
             ELSE IF st[Len(st)] \in UnitChars
                  THEN [ok |-> TRUE, sleep |-> n[1],
                        sleep_type |-> relation(st[Len(st)])]
                  ELSE SleepError
    ELSE LET n == PyInt(st)
         IN  IF n = None THEN SleepError
             ELSE [ok |-> TRUE, sleep |-> n[1], sleep_type |-> bare_sleep_type]

\* getattr(pause, self.sleep_type)(self.sleep): the seconds the loop blocks
PauseSeconds(type, n) ==
    CASE type = "seconds" -> n
      [] type = "minutes" -> n * 60
      [] type = "hours"   -> n * 3600
      [] type = "days"    -> n * 86400
      [] type = "weeks"   -> n * 604800

\* ---------------------------------------------------- Cioban.get_services
\* docker.services.list(filters=...): one Service object per existing
\* service, carrying a snapshot of its attrs, in the platform's order.
ServiceObject(id) ==
    [id |-> id, name |-> NameOf(id), image |-> platform[id].image]

ListServices ==
    LET live == SelectSeq(order, LAMBDA id : platform[id].exists)
    IN  [i \in 1..Len(live) |-> ServiceObject(live[i])]

\* variant: the last element dropped, whichever it is
ListRemove_pop(svcs, x) == SubSeq(svcs, 1, Len(svcs) - 1)

\* list.remove(x): drops the first element equal to x (Service objects are
\* equal when their ids are).
ListRemove(svcs, x) ==
    LET k == CHOOSE i \in 1..Len(svcs) :
                 /\ svcs[i].id = x.id
                 /\ \A j \in 1..(i-1) : svcs[j].id # x.id
    IN  SubSeq(svcs, 1, k-1) \o SubSeq(svcs, k+1, Len(svcs))

\* `for service in services: if service.name == b: services.remove(service)`
\* The list iterator is an index into the list being mutated: after a
\* removal the element that moved into position i is not visited.
RECURSIVE InnerLoop(_, _, _)
InnerLoop(svcs, b, i) ==
    IF i > Len(svcs) THEN svcs
    ELSE IF svcs[i].name = b
         THEN InnerLoop(ListRemove(svcs, svcs[i]), b, i + 1)
         ELSE InnerLoop(svcs, b, i + 1)

\* `for blacklist_service in self.settings['blacklist']: ...`
RECURSIVE BlacklistLoop(_, _, _)
BlacklistLoop(svcs, bl, k) ==
    IF k > Len(bl) THEN svcs
    ELSE BlacklistLoop(InnerLoop(svcs, bl[k], 1), bl, k + 1)

\* variant: the blacklist loop left out
get_services_unfiltered == ListServices

get_services == BlacklistLoop(ListServices, blacklist, 1)

\* ------------------------------------------------ Cioban.__get_image_parts
\* image_with_digest.split('@', 1): split at the first '@'.
FirstAt(s) ==
    IF \E i \in 1..Len(s) : s[i] = "@"
    THEN CHOOSE i \in 1..Len(s) : s[i] = "@" /\ \A j \in 1..(i-1) : s[j] # "@"
    ELSE 0

\* variant: the digest taken from the '@' on
get_image_parts_from_at(s) ==
    LET k == FirstAt(s)
    IN  IF k = 0
        THEN [image |-> s, image_sha |-> None]
        ELSE [image |-> SubSeq(s, 1, k-1),
              image_sha |-> Some(SubSeq(s, k, Len(s)))]

get_image_parts(s) ==
    LET k == FirstAt(s)
    IN  IF k = 0
        THEN [image |-> s, image_sha |-> None]
        ELSE [image |-> SubSeq(s, 1, k-1),
              image_sha |-> Some(SubSeq(s, k+1, Len(s)))]

\* ---------------------------------------------- Cioban.__get_updated_image
\* registry_data is None when get_registry_data raised APIError, else
\* Some(digest).  The result is None, False or the string image@digest.
PyNone   == [kind |-> "None",  val |-> <<>>]
PyFalse  == [kind |-> "False", val |-> <<>>]
PyStr(v) == [kind |-> "str",   val |-> v]

\* variant: the comparison with the pinned digest left out
get_updated_image_always(image, image_sha, registry_data) ==
    IF registry_data # None
    THEN PyStr(image \o <<"@">> \o registry_data[1])
    ELSE PyNone

\* variant: a failed lookup answered with the bare image name
get_updated_image_on_error(image, image_sha, registry_data) ==
    IF registry_data # None
    THEN IF image_sha = Some(registry_data[1])
         THEN PyFalse
         ELSE PyStr(image \o <<"@">> \o registry_data[1])
    ELSE PyStr(image)

get_updated_image(image, image_sha, registry_data) ==
    IF registry_data # None
    THEN LET digest == registry_data[1]
         IN  IF image_sha = Some(digest)
             THEN PyFalse
             ELSE PyStr(image \o <<"@">> \o digest)
    ELSE PyNone

\* `if update_image:` -- None, False and '' are falsy
Truthy(u) == u.kind = "str" /\ u.val # <<>>

\* -------------------------------------------------- Cioban.__update_image
\* variant: force_update left out
update_kwargs_noforce(img) == [image |-> img, force_update |-> FALSE]

\* the keyword arguments of service.update(...)
update_kwargs(img) == [image |-> img, force_update |-> TRUE]

\* variant: service_updated set before the call instead of after it
update_image_result_always(ok) == TRUE

\* variant: the update call's result dropped, so no wait follows it
update_image_result_never(ok) == FALSE

\* the value __update_image returns, given whether service.update raised
update_image_result(ok) == ok

\* variant: a vanished service counted as not updated
updated_on_notfound_false == FALSE

\* the value of service_updated after docker.errors.NotFound from reload()
updated_on_notfound == TRUE

\* variant: the wait left after the first re-read
is_updating_never(ustate) == FALSE

\* variant: the wait never left on a re-read that succeeds
is_updating_always(ustate) == TRUE

\* `UpdateStatus and UpdateStatus.get('State') == 'updating'` on the attrs
\* that reload() fetched
is_updating(ustate) == ustate = "updating"

\* variant: a second increment
inc_twice(c) == c + 2

\* PROM_SVC_UPDATE_COUNTER.labels(...).inc(1)
inc(c) == c + 1

\* variant: a failed element is tried again
next_service_retry(i, failed) == IF failed THEN i ELSE i + 1

\* the for-loop of the reconciliation pass moves to the next element
\* whatever happened to the current one
next_service(i, failed) == i + 1

\* ------------------------------------------------------------------ Init
\* the wait has no bound on its polls; the observation distinguishes none,
\* one and several
Counted(n) == IF n < 2 THEN n + 1 ELSE n

NoHist(c) ==
    [cstart   |-> c,        \* counter value when the cycle started
     primes   |-> 0,        \* priming calls for the id
     lookups  |-> 0,        \* registry lookups made for the id
     res      |-> "none",   \* "none" | "fail" | "ok": outcome of the lookup
     digest   |-> None,     \* Some(digest the registry returned)
     old      |-> None,     \* Some(image reference read before the update)
     calls    |-> <<>>,     \* update calls: [kwargs, ok]
     polls    |-> 0,        \* re-reads that reported 'updating': 0, 1, 2 = more
     lastpoll |-> "none",   \* "none" | "updating" | "done" | "notfound" | "error"
     term     |-> "none",   \* "none" | "converged" | "vanished"
     notes    |-> <<>>]     \* notification payloads

InitSettings ==
    \E st \in Settings : /\ blacklist = st.blacklist
                         /\ notify_old = st.old
                         /\ notify_new = st.new

InitEnv ==
    /\ platform \in {p \in [Ids -> [exists : {TRUE}, image : InitImages("s1"),
                                    ustate : {"none"}]] :
                        \A id \in Ids : p[id].image \in InitImages(id)}
    /\ order \in Orders
    /\ registry = <<"A">>
    /\ pushes = 0

InitCtl ==
    /\ phase = "init"
    /\ pc = "idle"
    /\ services = <<>>
    /\ iter = <<>>
    /\ idx = 1
    /\ image_with_digest = <<>>
    /\ update_image = PyNone
    /\ counter = [id \in Ids |-> 0]
    /\ primed = {}
    /\ hist = [id \in Ids |-> NoHist(0)]
    /\ recomputes = [prime |-> 0, wait |-> 0]
    /\ prev = [updFailed |-> {}, lookupFailed |-> {}, updated |-> {}]

\* the state after Cioban(**options) with the default SLEEP_TIME, '5m'
Constructed ==
    /\ sleep_time = <<"5", "m">>
    /\ ctor = "ok"
    /\ sleep = ParseSleep(sleep_time).sleep
    /\ sleep_type = ParseSleep(sleep_time).sleep_type

Init ==
    /\ InitSettings
    /\ Constructed
    /\ InitEnv
    /\ InitCtl

\* ------------------------------------------------------------ Cioban.run
\* `while True:` state('running'); _run() begins with get_services().
\* The observer is handed what it shall remember of the cycle that ended.
BeginCycle(remembered) ==
    /\ ctor = "ok"
    /\ pc = "idle"
    /\ phase' = "running"
    /\ services' = get_services
    /\ iter' = services'
    /\ idx' = 1
    /\ pc' = "prime"
    /\ image_with_digest' = <<>>
    /\ update_image' = PyNone
    /\ hist' = [id \in Ids |-> NoHist(counter[id])]
    /\ recomputes' = [prime |-> 0, wait |-> 0]
    /\ prev' = remembered
    /\ UNCHANGED <<settingsVars, envVars, counter, primed>>

StartCycle == BeginCycle(prev)

\* the same step, with the failures of the cycle that ended remembered
FailedInCycle ==
    [updFailed    |-> {id \in Ids : /\ hist[id].calls # <<>>
                                    /\ ~hist[id].calls[Len(hist[id].calls)].ok},
     lookupFailed |-> {id \in Ids : hist[id].res = "fail"},
     updated      |-> {}]

StartCycleRemembering == BeginCycle(FailedInCycle)

\* ----------------------------------------------- Cioban._run, priming pass
\* labels(name, id, short_id).inc(0)
PrimeOk ==
    /\ pc = "prime"
    /\ idx <= Len(iter)
    /\ LET id == iter[idx].id
       IN  /\ primed' = primed \cup {id}
           /\ counter' = [counter EXCEPT ![id] = @ + 0]
           /\ hist' = [hist EXCEPT ![id].primes = @ + 1]
    /\ idx' = idx + 1
    /\ UNCHANGED <<settingsVars, envVars, phase, pc, services, iter,
                   image_with_digest, update_image, recomputes, prev>>

\* `except docker.errors.NotFound: services = self.get_services()`: the
\* name is rebound, the for-loop keeps iterating the list it started on.
PrimeNotFound ==
    /\ pc = "prime"
    /\ idx <= Len(iter)
    /\ ~platform[iter[idx].id].exists
    /\ services' = get_services
    /\ recomputes' = [recomputes EXCEPT !.prime = @ + 1]
    /\ idx' = idx + 1
    /\ UNCHANGED <<settingsVars, envVars, phase, pc, iter, image_with_digest,
                   update_image, counter, primed, hist, prev>>

\* the priming loop is exhausted; `for service in services:` starts on the
\* list `services` is bound to now
PrimeDone ==
    /\ pc = "prime"
    /\ idx > Len(iter)
    /\ iter' = services
    /\ idx' = 1
    /\ pc' = "lookup"
    /\ UNCHANGED <<settingsVars, envVars, phase, services, image_with_digest,
                   update_image, counter, primed, hist, recomputes, prev>>

\* ------------------------------------------ Cioban._run, reconciliation pass
\* docker.images.get_registry_data(image): the digest of the repository, or
\* APIError for a repository the registry does not know
RegistryData(image) == IF image = Repo THEN Some(registry) ELSE None

\* lines 145-150: read the image reference of the snapshot, split it, ask
\* the registry (which may fail) and decide
Lookup ==
    /\ pc = "lookup"
    /\ idx <= Len(iter)
    /\ LET service == iter[idx]
           parts   == get_image_parts(service.image)
       IN  \E registry_data \in {None, RegistryData(parts.image)} :
             LET u == get_updated_image(parts.image, parts.image_sha, registry_data)
             IN  /\ image_with_digest' = service.image
                 /\ update_image' = u
                 /\ hist' = [hist EXCEPT
                               ![service.id].lookups = @ + 1,
                               ![service.id].res =
                                   IF registry_data = None THEN "fail" ELSE "ok",
                               ![service.id].digest = registry_data,
                               ![service.id].old = Some(service.image)]
                 /\ IF Truthy(u)
                    THEN pc' = "update" /\ idx' = idx
                    ELSE pc' = "lookup"
                         /\ idx' = next_service(idx, registry_data = None)
    /\ UNCHANGED <<settingsVars, envVars, phase, services, iter, counter,
                   primed, recomputes, prev>>

\* __update_image: service.update(image=update_image, force_update=True).
\* The platform accepts it (the service gets the new image and starts
\* updating) or rejects it with APIError; a service that no longer exists
\* is rejected.
UpdateCall ==
    /\ pc = "update"
    /\ LET service == iter[idx]
           kwargs  == update_kwargs(update_image.val)
       IN  \E ok \in BOOLEAN :
             /\ ok => platform[service.id].exists
             /\ platform' = IF ok
                            THEN [platform EXCEPT
                                    ![service.id].image = kwargs.image,
                                    ![service.id].ustate = "updating"]
                            ELSE platform
             /\ hist' = [hist EXCEPT ![service.id].calls =
                             Append(@, [kwargs |-> kwargs, ok |-> ok])]
             /\ IF update_image_result(ok)
                THEN pc' = "poll" /\ idx' = idx
                ELSE pc' = "lookup" /\ idx' = next_service(idx, TRUE)
    /\ UNCHANGED <<settingsVars, order, registry, pushes, phase, services, iter,
                   image_with_digest, update_image, counter, primed,
                   recomputes, prev>>

\* service.reload() succeeds: the object's attrs are replaced by the
\* platform's; 'updating' keeps the loop going after pause.seconds(1).
PollOk ==
    /\ pc = "poll"
    /\ LET id == iter[idx].id
           st == platform[id].ustate
       IN  /\ platform[id].exists
           /\ iter' = [iter EXCEPT ![idx].image = platform[id].image]
           /\ IF is_updating(st)
              THEN /\ pc' = "poll"
                   /\ hist' = [hist EXCEPT ![id].polls = Counted(@),
                                           ![id].lastpoll = "updating"]
              ELSE /\ pc' = "emit"
                   /\ hist' = [hist EXCEPT
                                 ![id].lastpoll =
                                     IF st = "updating" THEN "updating" ELSE "done",
                                 ![id].term = "converged"]
    /\ UNCHANGED <<settingsVars, envVars, phase, services, idx,
                   image_with_digest, update_image, counter, primed,
                   recomputes, prev>>

\* service.reload() raises docker.errors.NotFound: the list is fetched
\* again into `services`, service_updated is set and the wait is left.
PollNotFound ==
    /\ pc = "poll"
    /\ LET id == iter[idx].id
       IN  /\ ~platform[id].exists
           /\ services' = get_services
           /\ recomputes' = [recomputes EXCEPT !.wait = @ + 1]
           /\ hist' = [hist EXCEPT ![id].lastpoll = "notfound",
                                   ![id].term = "vanished"]
           /\ IF updated_on_notfound
              THEN pc' = "emit" /\ idx' = idx
              ELSE pc' = "lookup" /\ idx' = next_service(idx, FALSE)
    /\ UNCHANGED <<settingsVars, envVars, phase, iter, image_with_digest,
                   update_image, counter, primed, prev>>

\* service.reload() raises a docker.errors.APIError that is not NotFound
\* (a 5xx from the daemon).  `except docker.errors.NotFound` does not catch
\* it; it leaves _run and run.
PollApiError ==
    /\ pc = "poll"
    /\ pc' = "crashed"
    /\ hist' = [hist EXCEPT ![iter[idx].id].lastpoll = "error"]
    /\ UNCHANGED <<settingsVars, envVars, phase, services, iter, idx,
                   image_with_digest, update_image, counter, primed,
                   recomputes, prev>>

\* lines 173-183: the counter and the notification
Payload(service) ==
    [service_name     |-> service.name,
     service_short_id |-> ShortId(service.id),
     old_image        |-> IF notify_old THEN Some(image_with_digest) ELSE None,
     new_image        |-> IF notify_new THEN Some(service.image) ELSE None]

Emit ==
    /\ pc = "emit"
    /\ LET service == iter[idx]
       IN  /\ counter' = [counter EXCEPT ![service.id] = inc(@)]
           /\ primed' = primed \cup {service.id}
           /\ hist' = [hist EXCEPT ![service.id].notes =
                           Append(@, Payload(service))]
    /\ pc' = "lookup"
    /\ idx' = next_service(idx, FALSE)
    /\ UNCHANGED <<settingsVars, envVars, phase, services, iter,
                   image_with_digest, update_image, recomputes, prev>>

\* the for-loop is exhausted: _run returns, run sets state('sleeping')
ReconDone ==
    /\ pc = "lookup"
    /\ idx > Len(iter)
    /\ phase' = "sleeping"
    /\ pc' = "sleep"
    /\ UNCHANGED <<settingsVars, envVars, services, iter, idx,
                   image_with_digest, update_image, counter, primed,
                   hist, recomputes, prev>>

\* wait(self.sleep) returns
Wake ==
    /\ pc = "sleep"
    /\ pc' = "idle"
    /\ UNCHANGED <<settingsVars, envVars, phase, services, iter, idx,
                   image_with_digest, update_image, counter, primed,
                   hist, recomputes, prev>>

\* ------------------------------------------------------- the environment
ctlVars == <<phase, pc, services, iter, idx, image_with_digest, update_image,
             counter, primed, hist, recomputes, prev>>

\* an operator removes a service
Vanish(id) ==
    /\ platform[id].exists
    /\ Cardinality({i \in Ids : ~platform[i].exists}) < MaxVanish
    /\ platform' = [platform EXCEPT ![id].exists = FALSE]
    /\ UNCHANGED <<settingsVars, order, registry, pushes, ctlVars>>

\* the platform finishes rolling a service out
Converge(id) ==
    /\ platform[id].exists
    /\ platform[id].ustate = "updating"
    /\ platform' = [platform EXCEPT ![id].ustate = "completed"]
    /\ UNCHANGED <<settingsVars, order, registry, pushes, ctlVars>>

\* a new build is pushed under the tag
Push ==
    /\ pushes < MaxPush
    /\ pushes' = pushes + 1
    /\ registry' \in Digests \ {registry}
    /\ UNCHANGED <<settingsVars, platform, order, ctlVars>>

Next ==
    \/ StartCycle
    \/ PrimeOk
    \/ PrimeNotFound
    \/ PrimeDone
    \/ Lookup
    \/ UpdateCall
    \/ PollOk
    \/ PollNotFound
    \/ PollApiError
    \/ Emit
    \/ ReconDone
    \/ Wake
    \/ \E id \in Ids : Vanish(id)
    \/ \E id \in Ids : Converge(id)
    \/ Push

Spec == Init /\ [][Next]_vars

\* the same program, observed with a memory of the previous cycle's failures
NextRetry ==
    \/ StartCycleRemembering
    \/ PrimeOk
    \/ PrimeNotFound
    \/ PrimeDone
    \/ Lookup
    \/ UpdateCall
    \/ PollOk
    \/ PollNotFound
    \/ PollApiError
    \/ Emit
    \/ ReconDone
    \/ Wake
    \/ \E id \in Ids : Vanish(id)
    \/ \E id \in Ids : Converge(id)
    \/ Push

SpecRetry == Init /\ [][NextRetry]_vars

\* ================================================================ claims
Range(f) == {f[i] : i \in DOMAIN f}

Blacklisted(id) == NameOf(id) \in Range(blacklist)

\* the list the reconciliation pass iterates is in place
InPass == pc \in {"lookup", "update", "poll", "emit", "sleep", "crashed"}

Listed(list, id) == \E i \in 1..Len(list) : list[i].id = id

\* the reconciliation pass has left the service behind
Done(id) ==
    /\ InPass
    /\ \E i \in 1..Len(iter) : iter[i].id = id /\ i < idx

\* the pass is at the service
Current(id) ==
    /\ pc \in {"lookup", "update", "poll", "emit", "crashed"}
    /\ idx <= Len(iter)
    /\ iter[idx].id = id

\* the pass is beyond the point where it calls update for the service
PastUpdate(id) == Done(id) \/ (Current(id) /\ pc \in {"poll", "emit", "crashed"})

\* what the cycle saw of the service
Pinned(id)   == get_image_parts(hist[id].old[1]).image_sha
RepoOf(id)   == get_image_parts(hist[id].old[1]).image
LookedUp(id) == hist[id].res = "ok"
Stale(id)    == LookedUp(id) /\ Pinned(id) # hist[id].digest
Called(id)   == hist[id].calls # <<>>
LastCall(id) == hist[id].calls[Len(hist[id].calls)]
Rejected(id) == Called(id) /\ ~LastCall(id).ok
Accepted(id) == Called(id) /\ LastCall(id).ok
Untouched(id) ==
    /\ ~Called(id)
    /\ counter[id] = hist[id].cstart
    /\ hist[id].notes = <<>>

\* C1: in every cycle, a service whose pinned digest equals the digest the
\* registry returned for its repository gets no update call, no change of
\* its update counter and no notification.
C1_ConvergedUntouched ==
    \A id \in Ids :
        (LookedUp(id) /\ Pinned(id) = hist[id].digest) => Untouched(id)

C1_Witness ==
    \E id \in Ids :
        /\ LookedUp(id) /\ Pinned(id) = hist[id].digest
        /\ Done(id)
        /\ pc = "sleep"

\* C2: in every cycle, a service whose registry lookup succeeded and whose
\* pinned digest is absent or differs from the registry digest gets an update
\* call with image = repository + '@' + registry digest and the force flag.
C2_StaleGetsUpdateCall ==
    \A id \in Ids :
        (Stale(id) /\ PastUpdate(id)) =>
            /\ Called(id)
            /\ hist[id].calls[1].kwargs =
                   [image |-> RepoOf(id) \o <<"@">> \o hist[id].digest[1],
                    force_update |-> TRUE]

C2_Witness ==
    \E a, b \in Ids :
        /\ Stale(a) /\ Pinned(a) = None /\ Called(a)
        /\ Stale(b) /\ Pinned(b) # None /\ Called(b)

\* C3: a blacklisted service never appears in a registry lookup, an update
\* call, the priming or an increment of the counter, or a notification, nor
\* in any computed eligibility set, whatever its image and its place in the
\* platform's list.
C3_BlacklistedNeverTouched ==
    \A id \in Ids :
        Blacklisted(id) =>
            /\ hist[id].lookups = 0
            /\ hist[id].primes = 0
            /\ Untouched(id)
            /\ id \notin primed
            /\ counter[id] = 0
            /\ ~Listed(services, id)
            /\ ~Listed(iter, id)

C3_Witness ==
    \E id \in Ids :
        /\ Blacklisted(id)
        /\ platform[id].exists
        /\ get_image_parts(platform[id].image).image_sha # Some(registry)
        /\ order[1] = id
        /\ recomputes.wait > 0
        /\ pc = "sleep"

\* C4: over one cycle the update counter of a service grows by 1 if its
\* update succeeded in that cycle and by 0 otherwise; the priming pass adds
\* 0; the number of 'updating' polls does not change the increment.
C4_CounterGrowsByOne ==
    \A id \in Ids :
        /\ counter[id] - hist[id].cstart \in {0, 1}
        /\ pc = "prime" => counter[id] = hist[id].cstart
        /\ pc \in {"sleep", "idle"} =>
               counter[id] - hist[id].cstart = IF Accepted(id) THEN 1 ELSE 0

C4_Witness ==
    \E id \in Ids :
        /\ pc = "sleep"
        /\ hist[id].primes = 1
        /\ hist[id].polls >= 2
        /\ counter[id] = hist[id].cstart + 1

\* C5: a rejected update call is followed by no convergence wait, no
\* increment and no notification in that cycle; the service keeps the image
\* it had, and the next cycle issues the update call again if the registry
\* digest still differs.
C5_RejectedUpdate ==
    \A id \in Ids :
        /\ Rejected(id) =>
               /\ hist[id].polls = 0
               /\ hist[id].lastpoll = "none"
               /\ hist[id].term = "none"
               /\ counter[id] = hist[id].cstart
               /\ hist[id].notes = <<>>
               /\ platform[id].image = hist[id].old[1]
        /\ (id \in prev.updFailed /\ Stale(id) /\ PastUpdate(id)) => Called(id)

C5_Witness ==
    \E id \in Ids :
        /\ id \in prev.updFailed
        /\ Stale(id)
        /\ Accepted(id)
        /\ pc = "sleep"

\* C6: a failed registry lookup is followed by no update call, no counter
\* change and no notification in that cycle, stale or not; the lookup is not
\* repeated within the cycle and is made again in the next cycle.
C6_FailedLookup ==
    \A id \in Ids :
        /\ hist[id].lookups <= 1
        /\ hist[id].res = "fail" => (hist[id].lookups = 1 /\ Untouched(id))
        /\ (id \in prev.lookupFailed /\ Done(id)) => hist[id].lookups = 1

C6_Witness ==
    \E id \in Ids :
        /\ id \in prev.lookupFailed
        /\ Done(id)
        /\ hist[id].res = "fail"
        /\ get_image_parts(hist[id].old[1]).image_sha # Some(registry)
        /\ pc = "sleep"

\* a collaborator call made for the service has failed in this cycle
FailureSeen(id) ==
    \/ hist[id].res = "fail"
    \/ Rejected(id)
    \/ hist[id].lastpoll \in {"notfound", "error"}

\* C7: a failure for one service (registry lookup error, update-call error,
\* platform API error while re-reading the service) never aborts the cycle.
C7_NoFailureAborts ==
    \A id \in Ids : FailureSeen(id) => pc # "crashed"

\* C8: a not-found re-read after a successful update call ends the wait at
\* once with outcome Updated (counter + 1, one notification), the eligibility
\* set is recomputed, and the services still to be processed are processed.
C8_VanishedCountsAsUpdated ==
    \A id \in Ids :
        hist[id].term = "vanished" =>
            /\ Accepted(id)
            /\ hist[id].lastpoll = "notfound"
            /\ ~(Current(id) /\ pc \in {"poll", "lookup", "update"})
            /\ recomputes.wait >= 1
            /\ ~Listed(services, id)
            /\ Done(id) => /\ counter[id] = hist[id].cstart + 1
                           /\ Len(hist[id].notes) = 1
            /\ pc \in {"sleep", "idle"} =>
                   \A i \in 1..Len(iter) : hist[iter[i].id].lookups = 1

C8_Witness ==
    \E id \in Ids :
        /\ hist[id].term = "vanished"
        /\ pc = "sleep"
        /\ iter[1].id = id
        /\ Len(iter) = 2
        /\ Accepted(iter[2].id)

\* C9: the increment and the notification for a service come only after its
\* update call succeeded and its wait reached Converged or Vanished: never
\* before the call, after a rejected call, or while the last poll reported
\* 'updating'.
C9_EmitAfterConfirmedOutcome ==
    \A id \in Ids :
        (counter[id] # hist[id].cstart \/ hist[id].notes # <<>>) =>
            /\ Accepted(id)
            /\ hist[id].term \in {"converged", "vanished"}
            /\ hist[id].lastpoll \in {"done", "notfound"}

C9_Witness ==
    \E id \in Ids :
        /\ hist[id].notes # <<>>
        /\ counter[id] = hist[id].cstart + 1
        /\ hist[id].polls >= 1
        /\ hist[id].term = "converged"

\* C10: within one cycle at most one update call is issued per service id,
\* also when the eligibility set is recomputed in the priming pass or in a
\* convergence wait.
C10_AtMostOneUpdateCall ==
    \A id \in Ids : Len(hist[id].calls) <= 1

C10_Witness ==
    \E id \in Ids :
        /\ Len(hist[id].calls) = 1
        /\ Done(id)
        /\ recomputes.prime + recomputes.wait >= 1
        /\ pc = "sleep"

\* ------------------------------------------------ Cioban(**options), run()
\* __main__: `c = cioban.Cioban(**options)`: the constructor reads
\* settings['sleep_time'] or raises; `c.run()` follows only if it returned.
Construct ==
    /\ ctor = "new"
    /\ LET r == ParseSleep(sleep_time)
       IN  /\ ctor' = IF r.ok THEN "ok" ELSE "error"
           /\ sleep' = r.sleep
           /\ sleep_type' = r.sleep_type
    /\ UNCHANGED <<blacklist, notify_old, notify_new, sleep_time, envVars,
                   ctlVars>>

\* a process that has not run its constructor yet, for every SLEEP_TIME
InitSleep ==
    /\ blacklist = <<"worker">>
    /\ notify_old = TRUE
    /\ notify_new = TRUE
    /\ sleep_time \in SleepTimes
    /\ ctor = "new"
    /\ sleep = 0
    /\ sleep_type = "none"
    /\ platform = [id \in Ids |->
                      [exists |-> TRUE, image |-> Repo, ustate |-> "none"]]
    /\ order = <<"s1", "s2", "s3">>
    /\ registry = <<"A">>
    /\ pushes = 0
    /\ InitCtl

NextSleep ==
    \/ Construct
    \/ StartCycle

SpecSleep == InitSleep /\ [][NextSleep]_vars

\* ---- C11
\* an integer as a text: blanks, an optional sign, digits, blanks
AllDigits(m) == m # <<>> /\ \A k \in 1..Len(m) : m[k] \in {"0", "2", "3", "5"}

IntegerText(t) ==
    \E i \in 1..Len(t) : \E j \in i..Len(t) :
        /\ \A k \in 1..(i-1) : t[k] = " "
        /\ \A k \in (j+1)..Len(t) : t[k] = " "
        /\ LET m == SubSeq(t, i, j)
           IN  \/ AllDigits(m)
               \/ m[1] = "-" /\ AllDigits(Tail(m))

RECURSIVE Pow10(_)
Pow10(k) == IF k = 0 THEN 1 ELSE 10 * Pow10(k - 1)

RECURSIVE SumFrom(_, _)
SumFrom(ds, k) ==
    IF k > Len(ds) THEN 0
    ELSE (CASE ds[k] = "0" -> 0 [] ds[k] = "2" -> 2
            [] ds[k] = "3" -> 3 [] ds[k] = "5" -> 5) * Pow10(Len(ds) - k)
         + SumFrom(ds, k + 1)

IntegerValue(t) ==
    LET ds == SelectSeq(t, LAMBDA c : c \in {"0", "2", "3", "5"})
    IN  IF \E k \in 1..Len(t) : t[k] = "-" THEN 0 - SumFrom(ds, 1)
        ELSE SumFrom(ds, 1)

SecondsPer(c) ==
    CASE c = "s" -> 1 [] c = "m" -> 60 [] c = "h" -> 3600
      [] c = "d" -> 86400 [] c = "w" -> 604800

Slept == PauseSeconds(sleep_type, sleep)

\* C11: once the constructor has run, a SLEEP_TIME that is an integer is
\* that many minutes, an integer followed by one of s, m, h, d, w is that
\* many seconds, minutes, hours, days, weeks ("5m" 300 s, "30" 1800 s,
\* "2h" 7200 s, "3w" three weeks), and every other text ("abc", "5x", ...)
\* has made the constructor raise, with the loop never started.
C11_SleepTime ==
    ctor # "new" =>
        LET t    == sleep_time
            body == SubSeq(t, 1, Len(t) - 1)
        IN  /\ IF IntegerText(t)
               THEN /\ ctor = "ok"
                    /\ sleep_type = "minutes"
                    /\ Slept = IntegerValue(t) * 60
               ELSE IF /\ t # <<>>
                       /\ t[Len(t)] \in {"s", "m", "h", "d", "w"}
                       /\ IntegerText(body)
               THEN /\ ctor = "ok"
                    /\ sleep = IntegerValue(body)
                    /\ Slept = IntegerValue(body) * SecondsPer(t[Len(t)])
               ELSE /\ ctor = "error"
                    /\ phase = "init"
                    /\ pc = "idle"
            /\ t = <<"5", "m">> => ctor = "ok" /\ Slept = 300
            /\ t = <<"3", "0">> => ctor = "ok" /\ Slept = 1800
            /\ t = <<"2", "h">> => ctor = "ok" /\ Slept = 7200
            /\ t = <<"3", "w">> =>
                   ctor = "ok" /\ sleep = 3 /\ sleep_type = "weeks"
            /\ t \in {<<"a", "b", "c">>, <<"5", "x">>} => ctor = "error"

C11_Witness ==
    /\ sleep_time = <<"2", "h">>
    /\ ctor = "ok"
    /\ Slept = 7200
    /\ phase = "running"

\* ---- C12
InCycle == pc \in {"prime", "lookup", "update", "poll", "emit"}

\* C12: the scheduler loop repeats phase := running, one cycle,
\* phase := sleeping, sleep: the phase is 'running' at every call of a cycle
\* and 'sleeping' during the sleep that follows it, and the loop is never
\* left.
C12_SchedulerLoop ==
    /\ InCycle => phase = "running"
    /\ pc = "sleep" => phase = "sleeping"
    /\ pc = "idle" => phase \in {"init", "sleeping"}
    /\ pc \in {"idle", "sleep"} \/ InCycle

\* ---- C13
\* the controller is in the convergence wait of the service
Polling(id) == Current(id) /\ pc = "poll"

\* the controller has gone on from the wait of the service
WaitLeft(id) == Accepted(id) /\ ~(Current(id) /\ pc \in {"poll", "crashed"})

\* C13: the wait follows a successful update call only; after a re-read that
\* reported 'updating' the controller is still in the wait of the same
\* service, however many re-reads there were; a re-read that reports no
\* 'updating' status (Converged) or fails with not-found (Vanished) is the
\* last one, also when it is the first; and the wait is left in no other way.
C13_WaitEndsAtFirstSettledPoll ==
    \A id \in Ids :
        /\ hist[id].lastpoll # "none" => Accepted(id)
        /\ hist[id].lastpoll = "updating" =>
               Polling(id) /\ hist[id].term = "none" /\ hist[id].polls >= 1
        /\ hist[id].lastpoll = "done" =>
               WaitLeft(id) /\ hist[id].term = "converged"
        /\ hist[id].lastpoll = "notfound" =>
               WaitLeft(id) /\ hist[id].term = "vanished"
        /\ WaitLeft(id) => hist[id].lastpoll \in {"done", "notfound"}
        /\ Polling(id) => hist[id].lastpoll \in {"none", "updating"}

C13_Witness ==
    \E id \in Ids :
        /\ hist[id].polls = 2
        /\ hist[id].lastpoll = "done"
        /\ Current(id)
        /\ pc = "emit"

\* ---- C14
\* an update call was accepted and no re-read has settled it yet
Unconfirmed(id) == Accepted(id) /\ hist[id].term = "none"

\* position of the service in the list the pass iterates, 0 if it is not in it
PosOf(id) ==
    IF Listed(iter, id) THEN CHOOSE i \in 1..Len(iter) : iter[i].id = id ELSE 0

\* C14: the pass takes the services one at a time in list order: the ones
\* before the current position have had their one lookup, the ones after it
\* no lookup and no update call yet; a service whose update is accepted and
\* not yet confirmed converged or vanished is the current one, in its wait,
\* so there is at most one such service.
C14_OneAtATime ==
    /\ InPass =>
           \A id \in Ids :
               /\ (PosOf(id) # 0 /\ PosOf(id) < idx) => hist[id].lookups = 1
               /\ (PosOf(id) = 0 \/ PosOf(id) > idx) =>
                      hist[id].lookups = 0 /\ ~Called(id)
    /\ \A id \in Ids :
           Unconfirmed(id) => Current(id) /\ pc \in {"poll", "crashed"}
    /\ Cardinality({id \in Ids : Unconfirmed(id)}) <= 1

C14_Witness ==
    \E a \in Ids : \E b \in Ids :
        /\ Polling(b)
        /\ Unconfirmed(b)
        /\ PosOf(a) = 1
        /\ PosOf(b) = 2
        /\ hist[a].term = "converged"

\* ------------------------------------------- the same program, more churn
\* an operator removes a service; more than one may go within a cycle
VanishAgain(id) ==
    /\ platform[id].exists
    /\ Cardinality({i \in Ids : ~platform[i].exists}) < MaxChurn
    /\ platform' = [platform EXCEPT ![id].exists = FALSE]
    /\ UNCHANGED <<settingsVars, order, registry, pushes, ctlVars>>

NextChurn ==
    \/ StartCycle
    \/ PrimeOk
    \/ PrimeNotFound
    \/ PrimeDone
    \/ Lookup
    \/ UpdateCall
    \/ PollOk
    \/ PollNotFound
    \/ PollApiError
    \/ Emit
    \/ ReconDone
    \/ Wake
    \/ \E id \in Ids : VanishAgain(id)
    \/ \E id \in Ids : Converge(id)
    \/ Push

SpecChurn == Init /\ [][NextChurn]_vars

\* ---- C15
\* the pass has made a registry lookup or an update call for the service
Touched(id) == hist[id].lookups > 0 \/ Called(id)

\* C15: after a service vanished in its convergence wait, the services
\* looked up and updated in the rest of the cycle are services of the
\* eligibility set recomputed at that point.  (While that recomputation is
\* the only one of the pass, `services` holds its result.)
C15_RestOfCycleUsesRecomputedSet ==
    \A v \in Ids : \A id \in Ids :
        ( /\ recomputes.wait = 1
          /\ hist[v].term = "vanished"
          /\ PosOf(id) > PosOf(v)
          /\ Touched(id) )
        => Listed(services, id)

\* ---- C16
IdsOf(list) == [i \in 1..Len(list) |-> list[i].id]

\* C16: when a service is reported missing in the priming pass, the
\* eligibility set is recomputed once, the priming goes on with services of
\* the refreshed set only, and the reconciliation pass iterates the
\* refreshed set.
C16_PrimingUsesRefreshedSet ==
    /\ recomputes.prime <= 1
    /\ (pc = "prime" /\ recomputes.prime >= 1 /\ idx <= Len(iter)) =>
           Listed(services, iter[idx].id)
    /\ (InPass /\ recomputes.prime >= 1 /\ recomputes.wait = 0) =>
           IdsOf(iter) = IdsOf(services)

\* ------------------------------------- get_services over every input
\* every list the platform can return (any subset of the services, in any
\* order) and every blacklist of up to MaxBlacklist names, the name of a
\* service or not
AllOrders ==
    {o \in [1..Cardinality(Ids) -> Ids] :
        \A i \in DOMAIN o : \A j \in DOMAIN o : o[i] = o[j] => i = j}

BlacklistNames == {NameOf(id) : id \in Ids} \cup {"db"}

Blacklists == UNION {[1..n -> BlacklistNames] : n \in 0..MaxBlacklist}

InitFilter ==
    /\ blacklist \in Blacklists
    /\ notify_old = TRUE
    /\ notify_new = TRUE
    /\ Constructed
    /\ platform \in [Ids -> [exists : BOOLEAN, image : {Repo},
                             ustate : {"none"}]]
    /\ order \in AllOrders
    /\ registry = <<"A">>
    /\ pushes = 0
    /\ InitCtl

NextFilter ==
    \/ StartCycle

SpecFilter == InitFilter /\ [][NextFilter]_vars

\* ---- C17
NotBlacklisted(s) == \A i \in 1..Len(blacklist) : s.name # blacklist[i]

\* C17: the list get_services returns is the platform's list without the
\* services whose name is a blacklist entry: nothing else is dropped, none
\* of them is kept, the order is the platform's.
C17_FilterIsFunctional ==
    pc = "prime" => services = SelectSeq(ListServices, NotBlacklisted)

C17_Witness ==
    /\ pc = "prime"
    /\ Len(ListServices) = 3
    /\ Len(blacklist) = 2
    /\ ListServices[1].name = blacklist[1]
    /\ ListServices[2].name = blacklist[2]
    /\ Len(services) = 1

\* ---- C20
\* the image reference sent in the service's update call of this cycle
SentImage(id) == hist[id].calls[1].kwargs.image

NoteImagesRight(id, n) ==
    /\ notify_new => n.new_image = Some(SentImage(id))
    /\ notify_old => n.old_image = hist[id].old

\* C20: in every notification, new_image (when the flag is set) is the image
\* reference sent in the service's update call and old_image (when the flag
\* is set) is the reference the service had before it, whether the wait
\* ended Converged or Vanished.
C20_NotificationImages ==
    \A id \in Ids :
        \A k \in 1..Len(hist[id].notes) : NoteImagesRight(id, hist[id].notes[k])

\* ------------------- the same program, observed with a memory of updates
\* what a cycle sent for the services whose update call was accepted: the
\* repository and digest it put together and the reference it sent
UpdatedInCycle ==
    {[id     |-> id,
      image  |-> RepoOf(id),
      digest |-> hist[id].digest[1],
      sent   |-> SentImage(id)] : id \in {i \in Ids : Accepted(i)}}

StartCycleRecalling ==
    BeginCycle([updFailed |-> {}, lookupFailed |-> {},
                updated |-> UpdatedInCycle])

NextRound ==
    \/ StartCycleRecalling
    \/ PrimeOk
    \/ PrimeNotFound
    \/ PrimeDone
    \/ Lookup
    \/ UpdateCall
    \/ PollOk
    \/ PollNotFound
    \/ PollApiError
    \/ Emit
    \/ ReconDone
    \/ Wake
    \/ \E id \in Ids : Vanish(id)
    \/ \E id \in Ids : Converge(id)
    \/ Push

SpecRound == Init /\ [][NextRound]_vars

\* ---- C19
\* C19: the reference an accepted update call sent (repository '@' digest)
\* is the reference the next cycle reads from the service, and splitting it
\* at the first '@' gives the same repository and the same digest back; so
\* when the registry still answers that digest, the next cycle issues no
\* update call for the service.
C19_RoundTrip ==
    \A u \in prev.updated :
        /\ u.sent = u.image \o <<"@">> \o u.digest
        /\ get_image_parts(u.sent) =
               [image |-> u.image, image_sha |-> Some(u.digest)]
        /\ hist[u.id].old # None =>
               /\ hist[u.id].old = Some(u.sent)
               /\ RepoOf(u.id) = u.image
               /\ Pinned(u.id) = Some(u.digest)
        /\ (LookedUp(u.id) /\ hist[u.id].digest = Some(u.digest)) =>
               Untouched(u.id)

C19_Witness ==
    \E u \in prev.updated :
        /\ LookedUp(u.id)
        /\ hist[u.id].digest = Some(u.digest)
        /\ Pinned(u.id) = Some(u.digest)
        /\ Done(u.id)
        /\ pushes = MaxPush

\* ------------------------------------------- the program, fairly scheduled
\* The controller is one thread that always takes its next step.  (A
\* re-read that raises an API error is something the daemon may do, never
\* something it must do.)
ControllerStep ==
    \/ StartCycle
    \/ PrimeOk
    \/ PrimeNotFound
    \/ PrimeDone
    \/ Lookup
    \/ UpdateCall
    \/ PollOk
    \/ PollNotFound
    \/ Emit
    \/ ReconDone
    \/ Wake

\* the registry answers the lookup made for the service
LookupOk(id) ==
    /\ Lookup
    /\ iter[idx].id = id
    /\ hist'[id].res = "ok"

\* the platform accepts the update call made for the service
UpdateOk(id) ==
    /\ UpdateCall
    /\ iter[idx].id = id
    /\ pc' = "poll"

\* the controller keeps running; a rollout on the platform comes to an end;
\* a lookup or an update call that is tried again and again succeeds at last
Fairness ==
    /\ WF_vars(ControllerStep)
    /\ \A id \in Ids : WF_vars(Converge(id))
    /\ \A id \in Ids : SF_vars(LookupOk(id))
    /\ \A id \in Ids : SF_vars(UpdateOk(id))

\* one state of Init with two eligible services: web never pinned, api
\* pinned to the registry's digest (stale once a new build is pushed)
InitLive ==
    /\ blacklist = <<"worker">>
    /\ notify_old = FALSE
    /\ notify_new = FALSE
    /\ Constructed
    /\ platform = [id \in Ids |->
                      [exists |-> TRUE,
                       image  |-> IF id = "s3" THEN Repo \o <<"@", "A">>
                                  ELSE Repo,
                       ustate |-> "none"]]
    /\ order = <<"s1", "s2", "s3">>
    /\ registry = <<"A">>
    /\ pushes = 0
    /\ InitCtl

SpecLive == InitLive /\ [][Next]_vars /\ Fairness

\* ---- C18
Eligible(id) == \A i \in 1..Len(blacklist) : NameOf(id) # blacklist[i]

\* the platform runs the service on the registry's digest and the cycle has
\* issued no update call for it
Settled(id) ==
    /\ platform[id].image =
           get_image_parts(platform[id].image).image \o <<"@">> \o registry
    /\ ~Called(id)

\* C18: under the fair scheduling above, an eligible service that stays on
\* the platform, in a run where no re-read aborts the process, is
\* eventually and for good on repository@registry-digest with no update
\* call issued for it any more.
C18_EventuallyPinned ==
    \A id \in Ids :
        [](Eligible(id) /\ platform[id].exists /\ pc # "crashed")
            => <>[]Settled(id)

C18_Witness ==
    \E id \in Ids :
        /\ Eligible(id)
        /\ Settled(id)
        /\ counter[id] = 2
        /\ pushes = MaxPush
        /\ pc = "sleep"

====
